---- MODULE Spec2Model ----
(***************************************************************************)
(* A model of wordfindgen (src/src/lib.rs): the PuzzleGrid placement       *)
(* algorithm (place, get_indeces, placement_valid, fill_in, output) and    *)
(* the runner (run).                                                       *)
(*                                                                         *)
(* A character is a one-character string, a word a sequence of characters. *)
(* grid[y][x] is indexed from 0, as the Vec<Vec<String>> of the source.    *)
(***************************************************************************)
EXTENDS Integers, Sequences, FiniteSets, TLC

VARIABLES
    words,       \* the lines of the words file (read at line 253)
    hard,        \* Config.hard
    size,        \* Config.size / PuzzleGrid.size
    pc,          \* position of run
    idx,         \* position of the `for word in words.lines()` loop of line 265
    grid,        \* PuzzleGrid.grid (<<>> before PuzzleGrid::new)
    entries,     \* PuzzleGrid.entries
    placements,  \* history: the (x, y, dir) each entry was accepted at
    x, y, dir,   \* locals of place
    placed,      \* local of place
    tries,       \* iterations of the loop of line 128 done so far
    events,      \* history: the calls run made, in order
    files,       \* the two output files
    err,         \* the error run returned
    geo          \* an application of get_indeces and placement_valid's bound test

vars == <<words, hard, size, pc, idx, grid, entries, placements, x, y, dir,
          placed, tries, events, files, err, geo>>

runVars == <<words, hard, size, pc, idx, grid, entries, placements, x, y, dir,
             placed, tries, events, files, err>>

----------------------------------------------------------------------------
(* Bounds and program constants *)

\* PuzzleGrid.maxtries (10000 in Config::new), scaled down.
maxtries == 3

\* How many of the 26 letters of `chars` fill_in's gen_range may draw.
FillChoices == 2

\* Config.size as Config::new sets it.
ConfigSize == 20

\* Grid sizes of the runs that are explored.
Sizes == {2, 3}

\* Grid sizes get_indeces and the bound test are applied at.
GeomSizes == 1..ConfigSize

----------------------------------------------------------------------------
(* Characters *)

space == " "

chars ==
    <<"A", "B", "C", "D", "E", "F", "G", "H", "I", "J", "K", "L", "M",
      "N", "O", "P", "Q", "R", "S", "T", "U", "V", "W", "X", "Y", "Z">>

LowerChars ==
    <<"a", "b", "c", "d", "e", "f", "g", "h", "i", "j", "k", "l", "m",
      "n", "o", "p", "q", "r", "s", "t", "u", "v", "w", "x", "y", "z">>

\* u8::to_ascii_uppercase: a-z go to A-Z, every other character is kept.
AsciiUpperChar(c) ==
    IF \E i \in 1..26 : LowerChars[i] = c
    THEN chars[CHOOSE i \in 1..26 : LowerChars[i] = c]
    ELSE c

\* String::make_ascii_uppercase
make_ascii_uppercase(word) == [i \in 1..Len(word) |-> AsciiUpperChar(word[i])]

----------------------------------------------------------------------------
(* Direction *)

Direction ==
    {"Right", "UpRight", "Up", "UpLeft", "Left", "DownLeft", "Down", "DownRight"}

\* incrementors with the DownRight entry wrong.
incrementors_Mutant(d) ==
    CASE d = "Right"     -> <<1, 0>>
      [] d = "UpRight"   -> <<1, -1>>
      [] d = "Up"        -> <<0, -1>>
      [] d = "UpLeft"    -> <<-1, -1>>
      [] d = "Left"      -> <<-1, 0>>
      [] d = "DownLeft"  -> <<-1, 1>>
      [] d = "Down"      -> <<0, 1>>
      [] d = "DownRight" -> <<1, 0>>

\* Direction::incrementors
incrementors(d) ==
    CASE d = "Right"     -> <<1, 0>>
      [] d = "UpRight"   -> <<1, -1>>
      [] d = "Up"        -> <<0, -1>>
      [] d = "UpLeft"    -> <<-1, -1>>
      [] d = "Left"      -> <<-1, 0>>
      [] d = "DownLeft"  -> <<-1, 1>>
      [] d = "Down"      -> <<0, 1>>
      [] d = "DownRight" -> <<1, 1>>

\* i8 arithmetic as a release build does it (two's complement wrap-around; a
\* debug build panics instead). No sum leaves the i8 range at the sizes used.
I8(v) == ((v + 128) % 256) - 128

----------------------------------------------------------------------------
(* PuzzleGrid *)

\* PuzzleGrid::new: the grid of blanks
NewGrid(s) == [yy \in 0..(s - 1) |-> [xx \in 0..(s - 1) |-> space]]

\* dir_choices with the easy set forgotten.
DirChoices_Mutant(h) ==
    <<"Right", "UpRight", "Up", "UpLeft", "Left", "DownLeft", "Down", "DownRight">>

\* PuzzleGrid::new: dir_choices
DirChoices(h) ==
    IF h THEN <<"Right", "UpRight", "Up", "UpLeft", "Left", "DownLeft", "Down", "DownRight">>
    ELSE <<"Right", "UpRight", "Up", "Down", "DownRight">>

\* The loop of get_indeces from its n-th character on. usize::try_from(xi).unwrap()
\* panics on a negative xi; the result then carries panic = TRUE.
RECURSIVE IndecesFrom(_, _, _, _, _, _, _, _)
IndecesFrom(word, n, xi, yi, x_inc, y_inc, x_indeces, y_indeces) ==
    IF n > Len(word)
    THEN [x_indeces |-> x_indeces, y_indeces |-> y_indeces, panic |-> FALSE]
    ELSE IF xi < 0 \/ yi < 0
    THEN [x_indeces |-> x_indeces, y_indeces |-> y_indeces, panic |-> TRUE]
    ELSE IndecesFrom(word, n + 1, I8(xi + x_inc), I8(yi + y_inc), x_inc, y_inc,
                     Append(x_indeces, xi), Append(y_indeces, yi))

get_indeces(word, x0, y0, d) ==
    IndecesFrom(word, 1, x0, y0, incrementors(d)[1], incrementors(d)[2], <<>>, <<>>)

\* The first loop of placement_valid: the coordinate after Len(word) steps.
RECURSIVE EndFrom(_, _, _, _, _, _)
EndFrom(word, n, xi, yi, x_inc, y_inc) ==
    IF n > Len(word) THEN <<xi, yi>>
    ELSE EndFrom(word, n + 1, I8(xi + x_inc), I8(yi + y_inc), x_inc, y_inc)

EndCoordinate(word, x0, y0, d) ==
    EndFrom(word, 1, x0, y0, incrementors(d)[1], incrementors(d)[2])

\* The test of line 187 without its lower bounds.
Fits_Mutant(s, word, x0, y0, d) ==
    LET e == EndCoordinate(word, x0, y0, d)
    IN  e[1] <= s /\ e[2] <= s

\* The test of line 187.
Fits(s, word, x0, y0, d) ==
    LET e == EndCoordinate(word, x0, y0, d)
    IN  e[1] >= 0 /\ e[1] <= s /\ e[2] >= 0 /\ e[2] <= s

\* An index of a Vec of length n is in range.
InRange(i, n) == i >= 0 /\ i < n

\* The collision loop of placement_valid from the n-th character on:
\* "true", "false", or "panic" (an index out of the grid's range).
RECURSIVE NoCollisionFrom(_, _, _, _, _)
NoCollisionFrom(g, s, word, n, ind) ==
    IF n > Len(word) THEN "true"
    ELSE IF ~(InRange(ind.y_indeces[n], s) /\ InRange(ind.x_indeces[n], s)) THEN "panic"
    ELSE IF ~(g[ind.y_indeces[n]][ind.x_indeces[n]] = word[n]
              \/ g[ind.y_indeces[n]][ind.x_indeces[n]] = space)
    THEN "false"
    ELSE NoCollisionFrom(g, s, word, n + 1, ind)

\* placement_valid without its collision loop.
placement_valid_Mutant(g, s, word, x0, y0, d) ==
    IF Fits(s, word, x0, y0, d) THEN "true" ELSE "false"

placement_valid(g, s, word, x0, y0, d) ==
    IF Fits(s, word, x0, y0, d)
    THEN LET ind == get_indeces(word, x0, y0, d)
         IN  IF ind.panic THEN "panic" ELSE NoCollisionFrom(g, s, word, 1, ind)
    ELSE "false"

\* The writing loop of place (lines 145-149) from the n-th character on;
\* panic = TRUE when an index is out of the grid's range.
RECURSIVE WriteFrom(_, _, _, _, _)
WriteFrom(g, s, word, n, ind) ==
    IF n > Len(word) THEN [panic |-> FALSE, grid |-> g]
    ELSE IF ~(InRange(ind.y_indeces[n], s) /\ InRange(ind.x_indeces[n], s))
    THEN [panic |-> TRUE, grid |-> g]
    ELSE WriteFrom([g EXCEPT ![ind.y_indeces[n]][ind.x_indeces[n]] = word[n]],
                   s, word, n + 1, ind)

WriteWord(g, s, word, x0, y0, d) ==
    LET ind == get_indeces(word, x0, y0, d)
    IN  IF ind.panic THEN [panic |-> TRUE, grid |-> g] ELSE WriteFrom(g, s, word, 1, ind)

----------------------------------------------------------------------------
(* The words files that are explored *)

\* A word of n letters: "ABAB..."
LetterWord(n) == [i \in 1..n |-> IF i % 2 = 1 THEN "A" ELSE "B"]

WordFiles(s) ==
    { <<>>,
      << <<"a", "b">>, <<"B", "a">> >>,
      << <<"a", "2">> >>,
      << <<"a", " ", "b">> >>,
      << LetterWord(s) >>,
      << <<"a", "b">>, LetterWord(s + 1), LetterWord(s + 2) >> }
    \cup (IF s = 2 THEN { << <<>>, <<"a", "b">> >> } ELSE {})

----------------------------------------------------------------------------
(* run *)

NoFile == [state |-> "absent", grid |-> <<>>, entries |-> <<>>]
NoError == [kind |-> "none", word |-> <<>>]
NoGeo == [applied |-> FALSE]

\* The length check with >= for >.
TooLong_Mutant(ws, s) == {i \in 1..Len(ws) : Len(ws[i]) >= s}

\* The words of the file that are longer than the grid size (line 257).
TooLong(ws, s) == {i \in 1..Len(ws) : Len(ws[i]) > s}

\* run with fill_in called before the answer key is written.
AfterWord_Mutant(ws, n) == IF n >= Len(ws) THEN "fill" ELSE "place"

\* Where run goes after the words loop of line 265 has handled `n` words.
AfterWord(ws, n) == IF n >= Len(ws) THEN "output_key" ELSE "place"

InitRun ==
    /\ size \in Sizes
    /\ hard \in BOOLEAN
    /\ words \in WordFiles(size)
    /\ pc = "start"
    /\ idx = 0
    /\ grid = <<>>
    /\ entries = <<>>
    /\ placements = <<>>
    /\ x = 0 /\ y = 0 /\ dir = "Right"
    /\ placed = FALSE
    /\ tries = 0
    /\ events = <<>>
    /\ files = [answer_key |-> NoFile, puzzle |-> NoFile]
    /\ err = NoError

Init == InitRun /\ geo = NoGeo

\* Lines 256-262: the length check over the whole file, then PuzzleGrid::new.
Validate ==
    /\ pc = "start"
    /\ IF TooLong(words, size) # {}
       THEN /\ pc' = "error"
            /\ err' = [kind |-> "too_long",
                       word |-> words[CHOOSE i \in TooLong(words, size) :
                                        \A j \in TooLong(words, size) : i <= j]]
            /\ UNCHANGED <<grid, idx>>
       ELSE /\ grid' = NewGrid(size)
            /\ idx' = 1
            /\ pc' = AfterWord(words, 0)
            /\ UNCHANGED err
    /\ UNCHANGED <<words, hard, size, entries, placements, x, y, dir, placed,
                   tries, events, files, geo>>

\* Lines 266, 120-125: place is called with the idx-th word.
PlaceBegin ==
    /\ pc = "place"
    /\ x' = 0 /\ y' = 0 /\ dir' = "Right"
    /\ placed' = FALSE
    /\ tries' = 0
    /\ events' = Append(events, <<"place", words[idx]>>)
    /\ pc' = "trying"
    /\ UNCHANGED <<words, hard, size, idx, grid, entries, placements, files, err, geo>>

\* The sanitized_word of the place call in progress.
sanitized_word == make_ascii_uppercase(words[idx])

\* The range of line 128 written 1..=maxtries.
TriesLeft_Mutant(t) == t < maxtries

\* The range 1..self.maxtries of line 128 has iterations left after t of them.
TriesLeft(t) == t < maxtries - 1

\* Lines 128-134: one iteration of the retry loop.
PlaceTry ==
    /\ pc = "trying"
    /\ ~placed
    /\ TriesLeft(tries)
    /\ \E xr \in 0..(size - 1), yr \in 0..(size - 1),
          k \in 1..Len(DirChoices(hard)) :
          LET d == DirChoices(hard)[k]
              v == placement_valid(grid, size, sanitized_word, xr, yr, d)
          IN  /\ x' = xr /\ y' = yr /\ dir' = d
              /\ placed' = (v = "true")
              /\ pc' = IF v = "panic" THEN "panic" ELSE "trying"
    /\ tries' = tries + 1
    /\ UNCHANGED <<words, hard, size, idx, grid, entries, placements, events,
                   files, err, geo>>

\* Lines 136-154 and the `?` of line 266: the loop is over.
PlaceFinish ==
    /\ pc = "trying"
    /\ placed \/ ~TriesLeft(tries)
    /\ IF placed
       THEN LET w == WriteWord(grid, size, sanitized_word, x, y, dir)
            IN  /\ entries' = Append(entries, sanitized_word)
                /\ placements' = Append(placements, [x |-> x, y |-> y, dir |-> dir])
                /\ IF w.panic
                   THEN pc' = "panic" /\ UNCHANGED <<grid, idx>>
                   ELSE grid' = w.grid /\ idx' = idx + 1 /\ pc' = AfterWord(words, idx)
                /\ UNCHANGED err
       ELSE /\ err' = [kind |-> "placement", word |-> words[idx]]
            /\ pc' = "error"
            /\ UNCHANGED <<grid, entries, placements, idx>>
    /\ x' = 0 /\ y' = 0 /\ dir' = "Right" /\ placed' = FALSE /\ tries' = 0
    /\ UNCHANGED <<words, hard, size, events, files, geo>>

\* output (lines 210-234) on file `name`: File::create may fail, a write may
\* fail after the file was created, or the grid and the entries are written.
Output(name, next) ==
    /\ events' = Append(events, <<"output", name>>)
    /\ \E outcome \in {"written", "create_failed", "write_failed"} :
          /\ files' = [files EXCEPT ![name] =
                          CASE outcome = "written" ->
                                 [state |-> "written", grid |-> grid, entries |-> entries]
                            [] outcome = "write_failed" ->
                                 [state |-> "partial", grid |-> <<>>, entries |-> <<>>]
                            [] outcome = "create_failed" -> files[name]]
          /\ pc' = IF outcome = "written" THEN next ELSE "error"
          /\ err' = IF outcome = "written" THEN err ELSE [kind |-> "io", word |-> <<>>]
    /\ UNCHANGED <<words, hard, size, idx, grid, entries, placements, x, y, dir,
                   placed, tries, geo>>

\* Line 270
OutputKey == pc = "output_key" /\ Output("answer_key", "fill")

\* The cells fill_in replaces.
BlankCells(g) == {c \in (DOMAIN g) \X (DOMAIN g) : g[c[1]][c[2]] = space}

\* fill_in without the test of line 242: every cell gets a random letter.
FillIn_Mutant ==
    /\ pc = "fill"
    /\ \E r \in [(DOMAIN grid) \X (DOMAIN grid) -> 0..(FillChoices - 1)] :
          grid' = [yy \in DOMAIN grid |-> [xx \in DOMAIN grid |->
                      chars[r[<<yy, xx>>] + 1]]]
    /\ events' = Append(events, <<"fill_in">>)
    /\ pc' = "output_puzzle"
    /\ UNCHANGED <<words, hard, size, idx, entries, placements, x, y, dir,
                   placed, tries, files, err, geo>>

\* Lines 273, 237-248: every blank cell gets a letter of `chars` drawn at random.
FillIn ==
    /\ pc = "fill"
    /\ \E r \in [BlankCells(grid) -> 0..(FillChoices - 1)] :
          grid' = [yy \in DOMAIN grid |-> [xx \in DOMAIN grid |->
                      IF grid[yy][xx] = space THEN chars[r[<<yy, xx>>] + 1]
                      ELSE grid[yy][xx]]]
    /\ events' = Append(events, <<"fill_in">>)
    /\ pc' = "output_puzzle"
    /\ UNCHANGED <<words, hard, size, idx, entries, placements, x, y, dir,
                   placed, tries, files, err, geo>>

\* Lines 276-278
OutputPuzzle == pc = "output_puzzle" /\ Output("puzzle", "done")

Next ==
    \/ Validate
    \/ PlaceBegin
    \/ PlaceTry
    \/ PlaceFinish
    \/ OutputKey
    \/ FillIn
    \/ OutputPuzzle

Spec == Init /\ [][Next]_vars

----------------------------------------------------------------------------
(* get_indeces and the bound test of placement_valid, applied to every start,
   direction and word length of a grid *)

InitGeom ==
    /\ words = <<>> /\ hard = TRUE /\ size = ConfigSize
    /\ pc = "idle" /\ idx = 0
    /\ grid = <<>> /\ entries = <<>> /\ placements = <<>>
    /\ x = 0 /\ y = 0 /\ dir = "Right" /\ placed = FALSE /\ tries = 0
    /\ events = <<>>
    /\ files = [answer_key |-> NoFile, puzzle |-> NoFile]
    /\ err = NoError
    /\ geo = NoGeo

GeomApply ==
    /\ ~geo.applied
    /\ \E s \in GeomSizes :
       \E n \in 0..s, x0 \in 0..(s - 1), y0 \in 0..(s - 1), d \in Direction :
          geo' = [applied |-> TRUE, size |-> s, word |-> LetterWord(n),
                  x |-> x0, y |-> y0, dir |-> d,
                  fits |-> Fits(s, LetterWord(n), x0, y0, d),
                  ind |-> get_indeces(LetterWord(n), x0, y0, d)]
    /\ UNCHANGED runVars

NextGeom == GeomApply

SpecGeom == InitGeom /\ [][NextGeom]_vars

----------------------------------------------------------------------------
(* What the claims are stated with: the direction table and the cells of a
   placement as the specification words them, written without the loops of
   the source. *)

TableStep(d) ==
    CASE d = "Right"     -> [dx |-> 1, dy |-> 0]
      [] d = "UpRight"   -> [dx |-> 1, dy |-> -1]
      [] d = "Up"        -> [dx |-> 0, dy |-> -1]
      [] d = "UpLeft"    -> [dx |-> -1, dy |-> -1]
      [] d = "Left"      -> [dx |-> -1, dy |-> 0]
      [] d = "DownLeft"  -> [dx |-> -1, dy |-> 1]
      [] d = "Down"      -> [dx |-> 0, dy |-> 1]
      [] d = "DownRight" -> [dx |-> 1, dy |-> 1]

\* The cell of the i-th character (i from 0) of a word starting at (x0, y0).
CellX(x0, d, i) == x0 + i * TableStep(d).dx
CellY(y0, d, i) == y0 + i * TableStep(d).dy

Letters == {chars[i] : i \in 1..26}

Cells(g) == (DOMAIN g) \X (DOMAIN g)

\* The k-th entry can be read in grid g at the place it was accepted at.
Readable(g, k) ==
    \A i \in 0..(Len(entries[k]) - 1) :
        g[CellY(placements[k].y, placements[k].dir, i)]
         [CellX(placements[k].x, placements[k].dir, i)] = entries[k][i + 1]

\* The cells the placed words occupy.
Occupied ==
    {c \in Cells(grid) :
        \E k \in 1..Len(entries) : \E i \in 0..(Len(entries[k]) - 1) :
            /\ c[1] = CellY(placements[k].y, placements[k].dir, i)
            /\ c[2] = CellX(placements[k].x, placements[k].dir, i)}

HasSpace(w) == \E i \in 1..Len(w) : w[i] = space
OnlyLetters(w) == \A i \in 1..Len(w) : AsciiUpperChar(w[i]) \in Letters

----------------------------------------------------------------------------
(* C1: every word of entries can be read in the grid, at the start and in
   the direction it was accepted with, character by character of the
   uppercased word, in every state of a run (after later placements and
   after fill_in). *)
C1_RoundTrip ==
    /\ Len(placements) = Len(entries)
    /\ \A k \in 1..Len(entries) :
          /\ entries[k] = make_ascii_uppercase(words[k])
          /\ Readable(grid, k)

\* What holds of the source instead: the round trip of the words that
\* contain no space character.
C1_RoundTripWithoutSpaces ==
    /\ Len(placements) = Len(entries)
    /\ \A k \in 1..Len(entries) :
          /\ entries[k] = make_ascii_uppercase(words[k])
          /\ (~HasSpace(words[k]) => Readable(grid, k))

C1_SpacelessWordFilledIn ==
    /\ pc = "done"
    /\ Len(entries) = 2
    /\ \E c \in Occupied : files.answer_key.grid[c[1]][c[2]] # space

(* C2: every cell of the grid holds the blank sentinel or one uppercase
   letter A-Z, in every state of a run. *)
C2_CellAlphabet ==
    \A c \in Cells(grid) : grid[c[1]][c[2]] = space \/ grid[c[1]][c[2]] \in Letters

\* What holds of the source instead: the same for files of letter-only words.
C2_CellAlphabetOfLetterWords ==
    (\A k \in 1..Len(words) : OnlyLetters(words[k])) => C2_CellAlphabet

----------------------------------------------------------------------------
(* C3: when a word of the file, at any position, is longer than the grid
   size, run returns the length error naming a too long word: no place call
   is made, no grid is built and neither file is created. A file whose words
   are all of length <= size (a word of length exactly size included) never
   gets the length error. *)
C3_LengthPreValidation ==
    /\ (\E i \in 1..Len(words) : Len(words[i]) > size) =>
          /\ pc \in {"start", "error"}
          /\ events = <<>>
          /\ grid = <<>>
          /\ entries = <<>>
          /\ files.answer_key.state = "absent"
          /\ files.puzzle.state = "absent"
          /\ pc = "error" =>
                /\ err.kind = "too_long"
                /\ Len(err.word) > size
                /\ \E i \in 1..Len(words) : words[i] = err.word
    /\ (\A i \in 1..Len(words) : Len(words[i]) <= size) => err.kind # "too_long"

\* The length error of a file whose first word fits and whose second does not.
C3_LaterWordTooLong ==
    /\ pc = "error"
    /\ err.kind = "too_long"
    /\ Len(words) >= 2
    /\ Len(words[1]) <= size
    /\ Len(words[2]) > size

\* A word of length exactly size was accepted by the check and placed.
C3_FullLengthWordPlaced ==
    /\ Len(entries) = 1
    /\ Len(entries[1]) = size

\* The calls of a run that succeeds, in order.
ExpectedEvents ==
    [i \in 1..Len(words) |-> <<"place", words[i]>>]
        \o << <<"output", "answer_key">>, <<"fill_in">>, <<"output", "puzzle">> >>

IsPrefix(a, b) == Len(a) <= Len(b) /\ \A i \in 1..Len(a) : a[i] = b[i]

(* C4: the calls of run are a prefix of place(w1), ..., place(wn) in file
   order, output(answer_key.csv), fill_in, output(puzzle.csv). A file exists
   only if every word was placed; a failed placement ends the run with that
   call the last one and no file; a run that is done made every call once;
   the answer key holds the grid as it was before fill_in, blank outside the
   placed words, and the puzzle holds the grid after it. *)
C4_RunOrder ==
    /\ IsPrefix(events, ExpectedEvents)
    /\ pc = "done" => events = ExpectedEvents
    /\ pc = "done" => files.answer_key.state = "written" /\ files.puzzle.state = "written"
    /\ (files.answer_key.state # "absent" \/ files.puzzle.state # "absent") =>
          Len(entries) = Len(words)
    /\ err.kind = "placement" =>
          /\ pc = "error"
          /\ Len(events) = Len(entries) + 1
          /\ events[Len(events)] = <<"place", err.word>>
          /\ files.answer_key.state = "absent"
          /\ files.puzzle.state = "absent"
    /\ files.answer_key.state = "written" =>
          /\ files.answer_key.entries = entries
          /\ \A c \in Cells(grid) :
                /\ c \notin Occupied => files.answer_key.grid[c[1]][c[2]] = space
                /\ \/ files.answer_key.grid[c[1]][c[2]] = grid[c[1]][c[2]]
                   \/ /\ files.answer_key.grid[c[1]][c[2]] = space
                      /\ pc \in {"output_puzzle", "done", "error"}
    /\ files.puzzle.state = "written" =>
          /\ files.answer_key.state = "written"
          /\ files.puzzle.grid = grid
          /\ files.puzzle.entries = entries
          /\ \A c \in Cells(grid) : grid[c[1]][c[2]] # space

\* A run that is done, with two words placed and cells that fill_in filled.
C4_RunDone ==
    /\ pc = "done"
    /\ Len(entries) = 2
    /\ files.answer_key.grid # files.puzzle.grid

\* A run the first placement of which failed, with a second word in the file.
C4_FirstPlacementFailed ==
    /\ err.kind = "placement"
    /\ entries = <<>>
    /\ Len(words) = 2

(* C5: a fill_in step leaves no blank cell, puts a letter A-Z in every cell
   that was blank, keeps every cell that was not, and keeps entries. *)
C5_FillInFrame ==
    [][(pc = "fill" /\ pc' # "fill") =>
          /\ DOMAIN grid' = DOMAIN grid
          /\ \A c \in Cells(grid) :
                /\ grid'[c[1]][c[2]] # space
                /\ grid[c[1]][c[2]] = space => grid'[c[1]][c[2]] \in Letters
                /\ grid[c[1]][c[2]] # space => grid'[c[1]][c[2]] = grid[c[1]][c[2]]
          /\ entries' = entries
          /\ placements' = placements]_vars

\* fill_in has run on a grid with placed words and with blank cells.
C5_FilledAroundWords ==
    /\ pc = "output_puzzle"
    /\ Len(entries) = 2
    /\ \E c \in Cells(grid) : files.answer_key.grid[c[1]][c[2]] = space
    /\ \E c \in Cells(grid) : files.answer_key.grid[c[1]][c[2]] # space
    /\ \A c \in Cells(grid) : grid[c[1]][c[2]] # space

----------------------------------------------------------------------------
\* The validity test as the specification words it: the coordinate one step
\* past the last character is in [0, s] on both axes, and every cell of the
\* word holds the blank sentinel or the word's character.
EndInBounds(s, w, x0, y0, d) ==
    /\ 0 <= CellX(x0, d, Len(w)) /\ CellX(x0, d, Len(w)) <= s
    /\ 0 <= CellY(y0, d, Len(w)) /\ CellY(y0, d, Len(w)) <= s

CellsFree(g, w, x0, y0, d) ==
    \A i \in 0..(Len(w) - 1) :
        \/ g[CellY(y0, d, i)][CellX(x0, d, i)] = space
        \/ g[CellY(y0, d, i)][CellX(x0, d, i)] = w[i + 1]

\* A step of the retry loop of place, and the step that ends a place call.
TryStep == pc = "trying" /\ tries' = tries + 1
FinishStep == pc = "trying" /\ pc' # "trying"

(* C6: the candidate (x, y, dir) a retry draws is accepted if and only if
   its end coordinate is in [0, size] on both axes and every cell of the
   word is blank or holds the word's character; the test leaves the grid as
   it is. *)
C6_ValidityTest ==
    [][TryStep =>
          /\ placed' = (/\ EndInBounds(size, sanitized_word, x', y', dir')
                        /\ CellsFree(grid, sanitized_word, x', y', dir'))
          /\ grid' = grid
          /\ entries' = entries]_vars

\* A candidate that fits the grid was rejected for a collision.
C6_RejectedForCollision ==
    /\ pc = "trying"
    /\ tries >= 1
    /\ ~placed
    /\ EndInBounds(size, sanitized_word, x, y, dir)

\* A candidate that shares a cell with a placed word was accepted.
C6_AcceptedWithOverlap ==
    /\ pc = "trying"
    /\ placed
    /\ \E i \in 0..(Len(sanitized_word) - 1) :
          grid[CellY(y, dir, i)][CellX(x, dir, i)] # space

(* C7: when every cell of the word is non-negative, get_indeces returns two
   sequences of the word's length that start at x and y and advance by the
   direction's table entry at every step; a 6-letter word at (10, 10)
   DownRight gives 10..15 twice. *)
C7_CellSequence ==
    geo.applied =>
       LET n == Len(geo.word)
           xs == geo.ind.x_indeces
           ys == geo.ind.y_indeces
       IN  (\A i \in 0..(n - 1) : CellX(geo.x, geo.dir, i) >= 0
                                  /\ CellY(geo.y, geo.dir, i) >= 0) =>
              /\ ~geo.ind.panic
              /\ Len(xs) = n /\ Len(ys) = n
              /\ n > 0 => xs[1] = geo.x /\ ys[1] = geo.y
              /\ \A i \in 1..(n - 1) :
                    /\ xs[i + 1] - xs[i] = TableStep(geo.dir).dx
                    /\ ys[i + 1] - ys[i] = TableStep(geo.dir).dy
              /\ (n = 6 /\ geo.x = 10 /\ geo.y = 10 /\ geo.dir = "DownRight") =>
                    /\ xs = <<10, 11, 12, 13, 14, 15>>
                    /\ ys = <<10, 11, 12, 13, 14, 15>>

\* The case of the test `indeces` (line 296).
C7_ThanksExample ==
    /\ geo.applied
    /\ geo.size = 20
    /\ Len(geo.word) = 6 /\ geo.x = 10 /\ geo.y = 10 /\ geo.dir = "DownRight"
    /\ geo.ind.x_indeces = <<10, 11, 12, 13, 14, 15>>

(* C8: on an easy grid every accepted placement has one of the directions
   Right, UpRight, Up, Down, DownRight (none reads right to left); on a hard
   grid every one of the 8 directions has a candidate that place accepts
   when it draws it, for a first word shorter than the grid size. *)
C8_DirectionPolicy ==
    /\ ~hard =>
          /\ \A k \in 1..Len(placements) :
                placements[k].dir \in {"Right", "UpRight", "Up", "Down", "DownRight"}
          /\ (pc = "trying" /\ tries >= 1) =>
                dir \in {"Right", "UpRight", "Up", "Down", "DownRight"}
    /\ (hard /\ pc = "trying" /\ entries = <<>> /\ Len(sanitized_word) < size) =>
          \A d \in Direction :
             /\ \E k \in 1..Len(DirChoices(hard)) : DirChoices(hard)[k] = d
             /\ \E x0 \in 0..(size - 1), y0 \in 0..(size - 1) :
                   placement_valid(grid, size, sanitized_word, x0, y0, d) = "true"

\* A word placed right to left on a hard grid.
C8_PlacedLeftOnHard ==
    /\ hard
    /\ \E k \in 1..Len(placements) :
          placements[k].dir = "Left" /\ Len(entries[k]) = 2

\* Two words placed on an easy grid, one of them upwards.
C8_PlacedUpOnEasy ==
    /\ ~hard
    /\ Len(placements) = 2
    /\ \E k \in 1..2 : placements[k].dir = "Up"

\* The grid with the word w written at (x0, y0) in direction d.
Written(g, w, x0, y0, d) ==
    [yy \in DOMAIN g |-> [xx \in DOMAIN g |->
        IF \E i \in 0..(Len(w) - 1) : xx = CellX(x0, d, i) /\ yy = CellY(y0, d, i)
        THEN w[1 + CHOOSE i \in 0..(Len(w) - 1) :
                     xx = CellX(x0, d, i) /\ yy = CellY(y0, d, i)]
        ELSE g[yy][xx]]]

(* C9: place draws at most maxtries - 1 candidates, each with x and y in
   [0, size) and a direction of dir_choices, and draws none after an
   accepted one; every step that stays inside the call is one more draw, so
   the call terminates. It ends well if and only if the last candidate was
   accepted: then the uppercased word is appended to entries once and its
   characters are written into the cells of that candidate, every other cell
   kept. It ends with the placement error naming the word, after
   maxtries - 1 rejected draws, with the grid and entries kept. *)
C9_BoundedRetry ==
    [][/\ tries' <= maxtries - 1
       /\ (pc = "trying" /\ pc' = "trying") => tries' = tries + 1
       /\ TryStep =>
             /\ ~placed
             /\ x' \in 0..(size - 1) /\ y' \in 0..(size - 1)
             /\ \E k \in 1..Len(DirChoices(hard)) : dir' = DirChoices(hard)[k]
       /\ FinishStep =>
             IF placed
             THEN /\ pc' \in {"place", "output_key"}
                  /\ err' = NoError
                  /\ entries' = Append(entries, make_ascii_uppercase(words[idx]))
                  /\ grid' = Written(grid, make_ascii_uppercase(words[idx]), x, y, dir)
             ELSE /\ tries = maxtries - 1
                  /\ pc' = "error"
                  /\ err' = [kind |-> "placement", word |-> words[idx]]
                  /\ grid' = grid
                  /\ entries' = entries]_vars

\* Every draw for the second word was rejected, after the first was placed.
C9_SecondWordNotPlaced ==
    /\ pc = "error"
    /\ err.kind = "placement"
    /\ Len(entries) = 1

(* C10: when the bound test of placement_valid passes for a word of length
   <= size starting inside the grid, get_indeces does not panic and every
   index it returns is in [0, size - 1]. *)
C10_InBounds ==
    (geo.applied /\ geo.fits) =>
       /\ ~geo.ind.panic
       /\ Len(geo.ind.x_indeces) = Len(geo.word)
       /\ Len(geo.ind.y_indeces) = Len(geo.word)
       /\ \A i \in 1..Len(geo.ind.x_indeces) :
             /\ 0 <= geo.ind.x_indeces[i] /\ geo.ind.x_indeces[i] <= geo.size - 1
             /\ 0 <= geo.ind.y_indeces[i] /\ geo.ind.y_indeces[i] <= geo.size - 1

\* A word that ends at the grid's edge going up and left passes the test.
C10_FitsAtTheEdge ==
    /\ geo.applied /\ geo.fits
    /\ geo.size = 20
    /\ geo.dir = "UpLeft"
    /\ Len(geo.word) = 19
    /\ geo.x = 19 /\ geo.y = 19

\* No run panics: no usize conversion and no grid index fails.
C10_NoPanic == pc # "panic"

====
